---- MODULE Spec2Model ----
\* A model of the gollm client library (package llm): the retry loop of
\* OpenAIClient.Complete and the server-sent-event stream adapters of the
\* OpenAI and Anthropic clients.
EXTENDS Integers, Sequences, FiniteSets, TLC

\* ---------------------------------------------------------------------
\* Bounds of the model
\* ---------------------------------------------------------------------
\* largest RetryConfig.MaxRetries explored (the smallest is -1)
MaxMaxRetries == 2
\* largest number of lines in a streamed response body
MaxLines == 3
\* largest number of Recv calls made on one stream
MaxRecv == 4
\* largest number of Close calls made on one stream
MaxCloses == 2
\* largest number of AnthropicClient.Complete calls
MaxAnthropicCalls == 1

\* ---------------------------------------------------------------------
\* Values
\* ---------------------------------------------------------------------
StatusOK == 200
StatusUnauthorized == 401
StatusTooManyRequests == 429
StatusInternalServerError == 500
StatusBadGateway == 502
StatusServiceUnavailable == 503

\* a nil error, a nil *CompletionResponse
NoErr == [type |-> "nil"]
NilResp == [kind |-> "nil"]

\* &HTTPError{StatusCode, Message}
HTTPError(status, message) ==
    [type |-> "HTTPError", status |-> status, message |-> message]

\* fmt.Errorf("...: %w", err) and errors.New(...) of the two clients
TransportErr == [type |-> "transport"]
DecodeErr == [type |-> "decode"]
APIErr == [type |-> "api"]
EmptyErr == [type |-> "empty"]
SSEFormatErr == [type |-> "sse"]
EOFErr == [type |-> "EOF"]
CtxErrs == {[type |-> "ctx", why |-> "Canceled"],
            [type |-> "ctx", why |-> "DeadlineExceeded"]}

\* a JSON string literal as it stands in a payload, token by token: a
\* token is one character or an escape sequence. These are the arguments
\* of two tool calls; the second has white space a re-serialisation would
\* drop
WireArguments1 == <<"{", "\\\"", "l", "\\\"", ":", "1", "}">>
WireArguments2 == <<"{", " ", "\\\"", "u", "\\\"", " ", ":", "\\n", "2", "}">>

\* the tool_calls entries of a payload
WireToolCall1 ==
    [id |-> "call_1", name |-> "get_weather", arguments |-> WireArguments1]
WireToolCall2 ==
    [id |-> "call_2", name |-> "get_time", arguments |-> WireArguments2]

\* the JSON documents a server sends: an optional error object and a list
\* of choices (OpenAI) or content blocks (Anthropic), each with its text;
\* calls[i] is the tool_calls list of the message / delta of choice i
JSONDocs ==
    {[json |-> TRUE, error |-> FALSE, items |-> <<>>, calls |-> <<>>],
     [json |-> TRUE, error |-> FALSE, items |-> <<"Hello">>,
      calls |-> << <<>> >>],
     [json |-> TRUE, error |-> FALSE, items |-> <<" World", "Hello">>,
      calls |-> << <<>>, <<WireToolCall1>> >>],
     [json |-> TRUE, error |-> TRUE, items |-> <<"Hello">>,
      calls |-> << <<>> >>],
     [json |-> TRUE, error |-> FALSE, items |-> <<"">>,
      calls |-> << <<WireToolCall2, WireToolCall1>> >>]}
\* a payload that is not valid JSON
BadJSON == [json |-> FALSE, error |-> FALSE, items |-> <<>>, calls |-> <<>>]

\* ---------------------------------------------------------------------
\* time.Duration: a 64-bit two's complement count of nanoseconds,
\* represented by the set of the positions of its one bits
\* ---------------------------------------------------------------------
DurationBits == 64

SignBit == DurationBits - 1

\* the bits of a natural number below 2^31
Bits(n) == {i : i \in {j \in 0..30 : (n \div (2 ^ j)) % 2 = 1}}

\* the carry into bit i of a + b
Carry(a, b, i) ==
    \E j \in a \cap b :
        /\ j < i
        /\ \A k \in (j + 1)..(i - 1) : k \in a \/ k \in b

\* a + b, wrapping at 64 bits (the outer mapping makes the set an
\* enumerated one, so that sums of sums are not evaluated lazily)
Add64(a, b) ==
    {i : i \in {j \in 0..SignBit :
                    ((j \in a) # (j \in b)) # Carry(a, b, j)}}

\* a << k, the bits shifted out at the top are lost
Shl64(a, k) == {i + k : i \in {j \in a : j + k <= SignBit}}

RECURSIVE MulFrom(_, _, _)
\* the sum of a << k over the one bits k >= i of b
MulFrom(a, b, i) ==
    IF i > SignBit THEN {}
    ELSE IF i \in b THEN Add64(Shl64(a, i), MulFrom(a, b, i + 1))
    ELSE MulFrom(a, b, i + 1)

\* a * b, wrapping at 64 bits
Mul64(a, b) == MulFrom(a, b, 0)

Negative(a) == SignBit \in a

\* the largest element of a non-empty set of bit positions
TopBit(a) == CHOOSE i \in a : \A j \in a : j <= i

\* a > b for natural numbers given by their bits
GtNat(a, b) ==
    LET d == (a \ b) \cup (b \ a)
    IN d # {} /\ TopBit(d) \in a

\* a > b for signed 64-bit values
Gt64(a, b) ==
    IF Negative(a) # Negative(b) THEN Negative(b) ELSE GtNat(a, b)

\* time.Millisecond, time.Second
Millisecond == Bits(1000000)
Second == Bits(1000000000)

\* n * d for a small count n, as in 5 * time.Second
Times(n, d) == Mul64(Bits(n), d)

\* ---------------------------------------------------------------------
\* OpenAIClient: configuration
\* ---------------------------------------------------------------------
\* the RetryConfig NewOpenAIClient installs when the caller gives none
DefaultRetryConfig ==
    [MaxRetries |-> 3,
     InitialDelay |-> Second,
     MaxDelay |-> Times(5, Second),
     RetryableStatusCodes |-> <<StatusTooManyRequests, StatusInternalServerError,
                                StatusBadGateway, StatusServiceUnavailable>>]

\* the pairs of InitialDelay and MaxDelay explored: those of the retry
\* test, the defaults, and an InitialDelay of 2^62 ns whose double exceeds
\* the range of time.Duration
DelayConfigs ==
    {<<Times(10, Millisecond), Times(50, Millisecond)>>,
     <<Second, Times(5, Second)>>,
     <<{SignBit - 1}, Times(5, Second)>>}

\* the RetryConfigs a caller may supply (used verbatim), and the default
RetryConfigs ==
    {[MaxRetries |-> m, InitialDelay |-> d[1], MaxDelay |-> d[2],
      RetryableStatusCodes |-> codes] :
        m \in (-1)..MaxMaxRetries,
        d \in DelayConfigs,
        codes \in {<<>>, <<StatusTooManyRequests>>,
                   <<StatusTooManyRequests, StatusInternalServerError>>}}
    \cup {DefaultRetryConfig}

\* a nil *RetryConfig, a nil *http.Client
NilRetryConfig == [nil |-> TRUE]
NilHTTPClient == [nil |-> TRUE]

\* defaultBaseURL, defaultTimeout
DefaultBaseURL == "https://api.openai.com/v1"
DefaultTimeout == Times(30, Second)

\* the OpenAIConfigs a caller passes: each optional field unset or set
OpenAIConfigs ==
    [APIKey : {"test-key"},
     BaseURL : {"", "https://custom.openai.com"},
     Timeout : {{}, Times(10, Second)},
     HTTPClient : {NilHTTPClient, [Timeout |-> Times(5, Second)]},
     RetryConfig : {NilRetryConfig} \cup RetryConfigs]

\* the OpenAIConfig of NewOpenAIClientWithKey, and no client
KeyOnlyConfig ==
    [APIKey |-> "test-key", BaseURL |-> "", Timeout |-> {},
     HTTPClient |-> NilHTTPClient, RetryConfig |-> NilRetryConfig]
NoClient == [nil |-> TRUE]

NewOpenAIClient_overwrite(cfg) ==
    LET baseURL == IF cfg.BaseURL = "" THEN DefaultBaseURL ELSE cfg.BaseURL
        timeout == IF cfg.Timeout = {} THEN DefaultTimeout ELSE cfg.Timeout
        httpClient == IF cfg.HTTPClient = NilHTTPClient
                      THEN [Timeout |-> timeout]
                      ELSE cfg.HTTPClient
    IN [config |-> [APIKey |-> cfg.APIKey,
                    BaseURL |-> baseURL,
                    Timeout |-> timeout,
                    HTTPClient |-> httpClient,
                    RetryConfig |-> DefaultRetryConfig],
        httpClient |-> httpClient]

\* NewOpenAIClient: the unset fields of the configuration (its copy) get
\* their defaults, and the client holds the configuration and its client
NewOpenAIClient(cfg) ==
    LET baseURL == IF cfg.BaseURL = "" THEN DefaultBaseURL ELSE cfg.BaseURL
        timeout == IF cfg.Timeout = {} THEN DefaultTimeout ELSE cfg.Timeout
        httpClient == IF cfg.HTTPClient = NilHTTPClient
                      THEN [Timeout |-> timeout]
                      ELSE cfg.HTTPClient
        retry == IF cfg.RetryConfig = NilRetryConfig
                 THEN DefaultRetryConfig
                 ELSE cfg.RetryConfig
    IN [config |-> [APIKey |-> cfg.APIKey,
                    BaseURL |-> baseURL,
                    Timeout |-> timeout,
                    HTTPClient |-> httpClient,
                    RetryConfig |-> retry],
        httpClient |-> httpClient]

\* what one exchange of Complete can produce: httpClient.Do fails, or a
\* response with a status and a body
Replies ==
    {[kind |-> "transport", status |-> 0, doc |-> BadJSON]}
    \cup {[kind |-> "http", status |-> StatusOK, doc |-> d] :
            d \in JSONDocs \cup {BadJSON}}
    \cup {[kind |-> "http", status |-> s, doc |-> BadJSON] :
            s \in {StatusUnauthorized, StatusTooManyRequests,
                   StatusInternalServerError}}

VARIABLES
    \* --- OpenAIClient.Complete ---
    config,      \* c.config.RetryConfig
    req,         \* the *CompletionRequest Complete was called with
    pc,          \* position of the Complete call
    attempt,     \* the loop variable
    lastErr,     \* the local lastErr
    ctxDone,     \* ctx.Done() is closed
    ctxErr,      \* ctx.Err()
    timerFired,  \* the channel of time.After(delay) holds a value
    result,      \* what Complete returned
    calls,       \* history: the outcome of every c.complete call, in order
    waits,       \* history: number of backoff waits entered
    delays,      \* history: the delay of every backoff wait entered, in order
    cancelAt,    \* history: attempt being waited for when ctx was cancelled
    aborted      \* history: the select took the ctx.Done() branch

VARIABLES
    \* --- CompleteStream and the stream it returns ---
    provider,    \* which client's CompleteStream was called ("none": not yet)
    exchange,    \* the reply of the server to the streaming request
    streamRet,   \* what CompleteStream returned: a stream or nil, and an error
    pos,         \* lines of the body consumed through the stream's bufio.Reader
    buf,         \* lines of the body the bufio.Reader had fetched when the
                 \* body was closed (pos while the body is open)
    closeCalls,  \* number of calls of resp.Body.Close()
    streamCloses, \* history: number of calls of the stream's Close
    recvLog,     \* history: what each Recv call returned, in order
    streamSent   \* history: the request CompleteStream was called with and
                 \* the request body it gave to httpClient.Do

completeVars == <<config, req, pc, attempt, lastErr, ctxDone, ctxErr, timerFired,
                  result, calls, waits, delays, cancelAt, aborted>>

streamVars == <<provider, exchange, streamRet, pos, buf, closeCalls,
                streamCloses, recvLog, streamSent>>

VARIABLES
    \* --- AnthropicClient.Complete ---
    aCalls,      \* history: number of Complete calls made
    aRequests,   \* history: number of requests sent with httpClient.Do
    aReply,      \* the reply to the request of the last call
    aResult,     \* what the last call returned
    aSent        \* history: the request the last call was made with and
                 \* the request body it gave to httpClient.Do

anthropicVars == <<aCalls, aRequests, aReply, aResult, aSent>>

VARIABLES
    \* --- two Complete calls on one OpenAIClient ---
    callState    \* for each call: its position, its locals attempt and
                 \* lastErr, what it returned, and as history the
                 \* configuration when it began, the replies it got and
                 \* the delays of its backoff waits

concurrentVars == <<callState>>

VARIABLES
    \* --- NewOpenAIClient ---
    newConfig,   \* the OpenAIConfig NewOpenAIClient is called with
    client       \* the *OpenAIClient it returned

clientVars == <<newConfig, client>>

VARIABLES
    \* --- openAIStream.Recv, step by step ---
    recvPc       \* "in" while a Recv is in its loop, "out" otherwise

loopVars == <<recvPc>>

vars == <<completeVars, streamVars, anthropicVars, concurrentVars,
          clientVars, loopVars>>

\* ---------------------------------------------------------------------
\* Requests and their encoding
\* ---------------------------------------------------------------------
\* a Tool of a CompletionRequest
WeatherTool == [type |-> "function", name |-> "get_weather"]

\* the CompletionRequests a caller makes: a prompt and a list of tools
Requests ==
    {[prompt |-> "Hi", tools |-> <<>>],
     [prompt |-> "Weather in Paris?", tools |-> <<WeatherTool>>]}

\* no request has been made
NoRequest == [prompt |-> "", tools |-> <<>>]

\* a JSON request body: its messages, and the fields tools, tool_choice and
\* stream, each of which is omitted from the JSON when it has its zero
\* value (omitempty) or when the request type has no such field
NoBody ==
    [messages |-> <<>>, tools |-> <<>>, toolChoice |-> "", stream |-> FALSE]

\* the one message both clients build
UserMessage_empty(r) == [role |-> "user", content |-> ""]

UserMessage(r) == [role |-> "user", content |-> r.prompt]

\* openaiRequest as built by complete (stream = FALSE) and CompleteStream
\* (stream = TRUE), encoded with json.Marshal
OpenAIRequest(r, stream) ==
    [messages |-> <<UserMessage(r)>>,
     tools |-> r.tools,
     toolChoice |-> IF Len(r.tools) > 0 THEN "auto" ELSE "",
     stream |-> stream]

\* anthropicRequest as built by Complete and CompleteStream: the type has
\* no field for tools or a tool choice
AnthropicRequest(r, stream) ==
    [messages |-> <<UserMessage(r)>>,
     tools |-> <<>>,
     toolChoice |-> "",
     stream |-> stream]

\* ---------------------------------------------------------------------
\* OpenAIClient.complete: one exchange
\* ---------------------------------------------------------------------
\* encoding/json decoding a string literal: an escape sequence becomes the
\* character it stands for, every other character is kept
Unescape(token) ==
    IF token = "\\\"" THEN "\""
    ELSE IF token = "\\n" THEN "\n"
    ELSE token

JSONUnquote(wire) == [i \in 1..Len(wire) |-> Unescape(wire[i])]

DecodeToolCall_reserialised(tc) ==
    LET NotSpace(ch) == ch \notin {" ", "\n"}
    IN [id |-> tc.id, name |-> tc.name,
        arguments |-> SelectSeq(JSONUnquote(tc.arguments), NotSpace)]

\* the ToolCall the decoder builds from a tool_calls entry: Arguments is a
\* Go string, the decoded literal
DecodeToolCall(tc) ==
    [id |-> tc.id, name |-> tc.name, arguments |-> JSONUnquote(tc.arguments)]

DecodeToolCalls_firstOnly(tcs) ==
    [i \in 1..(IF Len(tcs) > 1 THEN 1 ELSE Len(tcs)) |-> DecodeToolCall(tcs[i])]

\* the []ToolCall decoded from a tool_calls list, entry by entry
DecodeToolCalls(tcs) == [i \in 1..Len(tcs) |-> DecodeToolCall(tcs[i])]

\* a CompletionResponse with its Content and ToolCalls
ToolResponse(content, toolCalls) ==
    [kind |-> "resp", content |-> content, toolCalls |-> toolCalls]

\* a CompletionResponse without tool calls
Response(content) == ToolResponse(content, <<>>)

complete_noErrorCheck(reply) ==
    IF reply.kind = "transport"
    THEN [resp |-> NilResp, err |-> TransportErr]
    ELSE IF reply.status # StatusOK
    THEN [resp |-> NilResp, err |-> HTTPError(reply.status, "body")]
    ELSE IF ~reply.doc.json
    THEN [resp |-> NilResp, err |-> DecodeErr]
    ELSE IF Len(reply.doc.items) = 0
    THEN [resp |-> NilResp, err |-> EmptyErr]
    ELSE [resp |-> ToolResponse(reply.doc.items[1],
                                DecodeToolCalls(reply.doc.calls[1])),
          err |-> NoErr]

\* the status check, the decoding and the checks of the decoded payload
complete(reply) ==
    IF reply.kind = "transport"
    THEN [resp |-> NilResp, err |-> TransportErr]
    ELSE IF reply.status # StatusOK
    THEN [resp |-> NilResp, err |-> HTTPError(reply.status, "body")]
    ELSE IF ~reply.doc.json
    THEN [resp |-> NilResp, err |-> DecodeErr]
    ELSE IF reply.doc.error
    THEN [resp |-> NilResp, err |-> APIErr]
    ELSE IF Len(reply.doc.items) = 0
    THEN [resp |-> NilResp, err |-> EmptyErr]
    ELSE [resp |-> ToolResponse(reply.doc.items[1],
                                DecodeToolCalls(reply.doc.calls[1])),
          err |-> NoErr]

\* errors.As(err, &httpErr): only an *HTTPError is one; the wrapped errors
\* complete builds wrap transport and decode failures, never an HTTPError
IsHTTPError(err) == err.type = "HTTPError"

shouldRetry_anyHTTPError(err) == IsHTTPError(err)

shouldRetry(err) ==
    IF ~IsHTTPError(err)
    THEN FALSE
    ELSE \E i \in 1..Len(config.RetryableStatusCodes) :
            err.status = config.RetryableStatusCodes[i]

\* ---------------------------------------------------------------------
\* OpenAIClient.Complete: the retry loop
\* ---------------------------------------------------------------------
LoopCond_strict(a) == a < config.MaxRetries

\* the condition of the for statement
LoopCond(a) == a <= config.MaxRetries

\* fmt.Errorf("max retries exceeded: %w", lastErr)
Exhausted(err) == [type |-> "exhausted", wraps |-> err]

AssignLastErr_keepFirst(old, new) == IF old = NoErr THEN new ELSE old

\* resp, lastErr = c.complete(ctx, req)
AssignLastErr(old, new) == new

CancelReturn_exhausted(cerr, last) == [resp |-> NilResp, err |-> Exhausted(last)]

\* case <-ctx.Done(): return nil, ctx.Err()
CancelReturn(cerr, last) == [resp |-> NilResp, err |-> cerr]

\* InitialDelay * time.Duration(1<<uint(attempt-1)), capped by MaxDelay; a
\* shift by 64 or more gives 0
getRetryDelay(a) ==
    LET delay == Mul64(config.InitialDelay,
                       IF a - 1 < DurationBits THEN {a - 1} ELSE {})
    IN IF Gt64(delay, config.MaxDelay) THEN config.MaxDelay ELSE delay

EnterIteration_waitFirst(a) ==
    IF ~LoopCond(a) THEN "done"
    ELSE "wait"

\* where the loop goes when it (re)enters an iteration with attempt = a
EnterIteration(a) ==
    IF ~LoopCond(a) THEN "done"
    ELSE IF a > 0 THEN "wait"
    ELSE "call"

NoResult == [resp |-> NilResp, err |-> NoErr]

\* no streaming request has been made
StreamIdle ==
    /\ provider = "none"
    /\ exchange = [kind |-> "none"]
    /\ streamRet = [stream |-> FALSE, err |-> NoErr]
    /\ pos = 0
    /\ buf = 0
    /\ closeCalls = 0
    /\ streamCloses = 0
    /\ recvLog = <<>>
    /\ streamSent = [of |-> NoRequest, body |-> NoBody]

\* AnthropicClient.Complete has not been called
AnthropicIdle ==
    /\ aCalls = 0
    /\ aRequests = 0
    /\ aReply = [kind |-> "none"]
    /\ aResult = NoResult
    /\ aSent = [of |-> NoRequest, body |-> NoBody]

\* the goroutines that call Complete on the one client
Callers == {1, 2}

\* a call that has not begun
IdleCall ==
    [pc |-> "idle", attempt |-> 0, lastErr |-> NoErr, result |-> NoResult,
     config0 |-> <<>>, replies |-> <<>>, delays |-> <<>>]

ConcurrentIdle == callState = [c \in Callers |-> IdleCall]

\* the client of the other parts is the one NewOpenAIClientWithKey makes,
\* or one with the RetryConfig in config
ClientBuilt ==
    /\ newConfig = KeyOnlyConfig
    /\ client = NewOpenAIClient(KeyOnlyConfig)

InitComplete ==
    /\ StreamIdle
    /\ AnthropicIdle
    /\ ConcurrentIdle
    /\ ClientBuilt
    /\ recvPc = "out"
    /\ config \in RetryConfigs
    /\ req = NoRequest
    /\ pc = "idle"
    /\ attempt = 0
    /\ lastErr = NoErr
    /\ ctxDone = FALSE
    /\ ctxErr = NoErr
    /\ timerFired = FALSE
    /\ result = NoResult
    /\ calls = <<>>
    /\ waits = 0
    /\ delays = <<>>
    /\ cancelAt = -1
    /\ aborted = FALSE

\* Complete is called: attempt := 0 and the loop condition is evaluated
CompleteCall ==
    /\ pc = "idle"
    /\ req' \in Requests
    /\ attempt' = 0
    /\ pc' = EnterIteration(0)
    /\ result' = IF EnterIteration(0) = "done"
                 THEN [resp |-> NilResp, err |-> Exhausted(lastErr)]
                 ELSE result
    /\ UNCHANGED <<config, lastErr, ctxDone, ctxErr, timerFired, calls,
                   waits, delays, cancelAt, aborted,
                   streamVars, anthropicVars, concurrentVars, clientVars, loopVars>>

\* the caller cancels the context, or its deadline passes
CtxCancel ==
    /\ ~ctxDone
    /\ pc # "done"
    /\ ctxDone' = TRUE
    /\ ctxErr' \in CtxErrs
    /\ cancelAt' = IF pc = "wait" THEN attempt ELSE cancelAt
    /\ UNCHANGED <<config, req, pc, attempt, lastErr, timerFired, result, calls,
                   waits, delays, aborted,
                   streamVars, anthropicVars, concurrentVars, clientVars, loopVars>>

\* the timer of time.After(delay) expires
TimerFire ==
    /\ pc = "wait"
    /\ ~timerFired
    /\ timerFired' = TRUE
    /\ UNCHANGED <<config, req, pc, attempt, lastErr, ctxDone, ctxErr, result,
                   calls, waits, delays, cancelAt, aborted,
                   streamVars, anthropicVars, concurrentVars, clientVars, loopVars>>

\* the select statement proceeds with the case <-ctx.Done()
SelectCtxDone ==
    /\ pc = "wait"
    /\ ctxDone
    /\ pc' = "done"
    /\ result' = CancelReturn(ctxErr, lastErr)
    /\ aborted' = TRUE
    /\ UNCHANGED <<config, req, attempt, lastErr, ctxDone, ctxErr, timerFired,
                   calls, waits, delays, cancelAt,
                   streamVars, anthropicVars, concurrentVars, clientVars, loopVars>>

\* the select statement proceeds with the case <-time.After(delay)
SelectTimer ==
    /\ pc = "wait"
    /\ timerFired
    /\ pc' = "call"
    /\ UNCHANGED <<config, req, attempt, lastErr, ctxDone, ctxErr, timerFired,
                   result, calls, waits, delays, cancelAt, aborted,
                   streamVars, anthropicVars, concurrentVars, clientVars, loopVars>>

\* c.complete is called and its outcome is handled, up to the next
\* suspension point of the loop. The reply is the transport's: with a
\* cancelled context the default transport fails the exchange, an injected
\* HTTPClient may answer anything
Attempt(reply) ==
    /\ pc = "call"
    /\ LET r == complete(reply)
           le == AssignLastErr(lastErr, r.err)
       IN /\ calls' = Append(calls, [attempt |-> attempt,
                                     request |-> OpenAIRequest(req, FALSE),
                                     reply |-> reply,
                                     resp |-> r.resp, err |-> r.err])
          /\ lastErr' = le
          /\ IF le = NoErr
             THEN /\ pc' = "done"
                  /\ result' = [resp |-> r.resp, err |-> NoErr]
                  /\ UNCHANGED <<attempt, waits, delays, timerFired>>
             ELSE IF ~shouldRetry(le)
             THEN /\ pc' = "done"
                  /\ result' = [resp |-> NilResp, err |-> le]
                  /\ UNCHANGED <<attempt, waits, delays, timerFired>>
             ELSE /\ attempt' = attempt + 1
                  /\ pc' = EnterIteration(attempt + 1)
                  /\ timerFired' = FALSE
                  /\ waits' = IF EnterIteration(attempt + 1) = "wait"
                              THEN waits + 1 ELSE waits
                  /\ delays' = IF EnterIteration(attempt + 1) = "wait"
                               THEN Append(delays, getRetryDelay(attempt + 1))
                               ELSE delays
                  /\ result' = IF EnterIteration(attempt + 1) = "done"
                               THEN [resp |-> NilResp, err |-> Exhausted(le)]
                               ELSE result
    /\ UNCHANGED <<config, req, ctxDone, ctxErr, cancelAt, aborted,
                   streamVars, anthropicVars, concurrentVars, clientVars, loopVars>>

AttemptAny ==
    /\ pc = "call"
    /\ \E reply \in Replies : Attempt(reply)

NextComplete ==
    \/ CompleteCall
    \/ CtxCancel
    \/ TimerFire
    \/ SelectCtxDone
    \/ SelectTimer
    \/ AttemptAny

SpecComplete == InitComplete /\ [][NextComplete]_vars

\* ---------------------------------------------------------------------
\* Streamed response bodies
\* ---------------------------------------------------------------------
\* A body is a sequence of newline-terminated lines. A line is blank (only
\* white space), or starts with "data: " followed by a payload, or is any
\* other text. The payload of a data line is empty, the sentinel [DONE], or
\* a document.
BlankLine == [kind |-> "blank", form |-> "none", doc |-> BadJSON]
OtherLine == [kind |-> "other", form |-> "none", doc |-> BadJSON]
EmptyDataLine == [kind |-> "data", form |-> "empty", doc |-> BadJSON]
DoneLine == [kind |-> "data", form |-> "done", doc |-> BadJSON]
DataLine(d) == [kind |-> "data", form |-> "doc", doc |-> d]

Lines ==
    {BlankLine, OtherLine, EmptyDataLine, DoneLine}
    \cup {DataLine(d) : d \in JSONDocs \cup {BadJSON}}

Bodies == UNION {[1..n -> Lines] : n \in 0..MaxLines}

\* what the server answers to a streaming request: httpClient.Do fails, or
\* a status with an event stream (200) or a text (any other status); the
\* body ends cleanly ("eof") or with a failing Read ("err")
StreamReplies ==
    {[kind |-> "transport", status |-> 0, text |-> "", lines |-> <<>>,
      end |-> "eof"]}
    \cup {[kind |-> "http", status |-> StatusOK, text |-> "", lines |-> b,
           end |-> e] : b \in Bodies, e \in {"eof", "err"}}
    \cup {[kind |-> "http", status |-> s, text |-> t, lines |-> <<>>,
           end |-> "eof"] :
            s \in {StatusUnauthorized, StatusTooManyRequests},
            t \in {"", "Invalid API key"}}

\* a 200 whose body ends cleanly inside its last line: the last of the
\* lines has no newline after it ("partial")
PartialReplies ==
    {[kind |-> "http", status |-> StatusOK, text |-> "", lines |-> b,
      end |-> "partial"] : b \in Bodies \ {<<>>}}

\* the lines of a body that ReadBytes('\n') returns without an error: those
\* that end with a newline
Terminated(reply) ==
    IF reply.end = "partial" THEN Len(reply.lines) - 1 ELSE Len(reply.lines)

\* the errors of the body's Read
BodyReadErr == [type |-> "read"]
ClosedBodyErr == [type |-> "read on closed body"]

\* fmt.Errorf("failed to read stream: %w", err)
ReadFailed(err) == [type |-> "failed to read stream", wraps |-> err]

\* io.ReadAll(resp.Body) on a body that was closed before: the Read fails
\* and nothing has been read
ReadAllClosed(text) == ""

\* what a Recv returns, or that its loop goes on to the next line
Continue == [continue |-> TRUE, resp |-> NilResp, err |-> NoErr]
Return(resp, err) == [continue |-> FALSE, resp |-> resp, err |-> err]

\* ---------------------------------------------------------------------
\* OpenAIClient.CompleteStream, openAIStream
\* ---------------------------------------------------------------------
OpenAIStreamOutcome_leak(reply) ==
    IF reply.kind = "transport"
    THEN [stream |-> FALSE, err |-> TransportErr, closes |-> 0]
    ELSE IF reply.status # StatusOK
    THEN [stream |-> FALSE,
          err |-> HTTPError(reply.status, reply.text), closes |-> 0]
    ELSE [stream |-> TRUE, err |-> NoErr, closes |-> 0]

\* what CompleteStream returns for a reply, and how often it closes the body
OpenAIStreamOutcome(reply) ==
    IF reply.kind = "transport"
    THEN [stream |-> FALSE, err |-> TransportErr, closes |-> 0]
    ELSE IF reply.status # StatusOK
    THEN [stream |-> FALSE,
          err |-> HTTPError(reply.status, ReadAllClosed(reply.text)),
          closes |-> 1]
    ELSE [stream |-> TRUE, err |-> NoErr, closes |-> 0]

FirstChoice_last(items) == items[Len(items)]

\* Choices[0].Delta.Content
FirstChoice(items) == items[1]

OpenAILine_emptyFragment(line) ==
    IF line.kind = "blank" THEN Continue
    ELSE IF ~(line.kind = "data" /\ line.form # "empty") THEN Continue
    ELSE IF line.form = "done" THEN Return(NilResp, EOFErr)
    ELSE IF ~line.doc.json THEN Return(NilResp, DecodeErr)
    ELSE IF line.doc.error THEN Return(NilResp, APIErr)
    ELSE IF Len(line.doc.items) = 0 THEN Return(Response(""), NoErr)
    ELSE Return(ToolResponse(FirstChoice(line.doc.items),
                             DecodeToolCalls(FirstChoice(line.doc.calls))),
                NoErr)

\* the body of Recv's loop after a successful ReadBytes. bytes.TrimSpace
\* removes the newline and surrounding white space, so a data line with an
\* empty payload is left as "data:" and lacks the prefix "data: "
OpenAILine(line) ==
    IF line.kind = "blank" THEN Continue
    ELSE IF ~(line.kind = "data" /\ line.form # "empty") THEN Continue
    ELSE IF line.form = "done" THEN Return(NilResp, EOFErr)
    ELSE IF ~line.doc.json THEN Return(NilResp, DecodeErr)
    ELSE IF line.doc.error THEN Return(NilResp, APIErr)
    ELSE IF Len(line.doc.items) = 0 THEN Continue
    ELSE Return(ToolResponse(FirstChoice(line.doc.items),
                             DecodeToolCalls(FirstChoice(line.doc.calls))),
                NoErr)

\* the error of ReadBytes when no further line can be read: the body was
\* closed by Close, or it has ended
EndOfBody(end, closed) ==
    IF closed THEN ClosedBodyErr
    ELSE IF end \in {"eof", "partial"} THEN EOFErr
    ELSE BodyReadErr

OpenAIReadError_alwaysEOF(err) == Return(NilResp, EOFErr)

\* if err == io.EOF { return nil, io.EOF }; otherwise the wrapped error
OpenAIReadError(err) ==
    IF err = EOFErr THEN Return(NilResp, EOFErr)
    ELSE Return(NilResp, ReadFailed(err))

RECURSIVE OpenAIRecvLoop(_, _, _, _)
\* Recv's loop from line p of the body, of which the lines up to limit can
\* be read; rerr is the error of ReadBytes beyond them
OpenAIRecvLoop(lines, p, limit, rerr) ==
    IF p >= limit
    THEN [ret |-> OpenAIReadError(rerr), pos |-> p, end |-> TRUE]
    ELSE LET o == OpenAILine(lines[p + 1])
         IN IF o.continue
            THEN OpenAIRecvLoop(lines, p + 1, limit, rerr)
            ELSE [ret |-> o, pos |-> p + 1, end |-> FALSE]

\* ---------------------------------------------------------------------
\* AnthropicClient.CompleteStream, anthropicStream
\* ---------------------------------------------------------------------
\* CompleteStream does not look at the status
AnthropicStreamOutcome(reply) ==
    IF reply.kind = "transport"
    THEN [stream |-> FALSE, err |-> TransportErr, closes |-> 0]
    ELSE [stream |-> TRUE, err |-> NoErr, closes |-> 0]

AnthropicLine_ignoreOther(line) ==
    IF line.kind = "other" THEN Return(NilResp, NoErr)
    ELSE IF line.kind # "data" THEN Return(NilResp, SSEFormatErr)
    ELSE IF line.form # "doc" THEN Return(NilResp, DecodeErr)
    ELSE IF ~line.doc.json THEN Return(NilResp, DecodeErr)
    ELSE IF line.doc.error THEN Return(NilResp, APIErr)
    ELSE IF Len(line.doc.items) = 0 THEN Return(NilResp, NoErr)
    ELSE Return(Response(line.doc.items[1]), NoErr)

\* Recv after a successful ReadBytes. The line is not trimmed: it keeps its
\* newline, so the bytes after the prefix are never empty, and an empty
\* payload or [DONE] followed by the newline is not a JSON object
AnthropicLine(line) ==
    IF line.kind # "data" THEN Return(NilResp, SSEFormatErr)
    ELSE IF line.form # "doc" THEN Return(NilResp, DecodeErr)
    ELSE IF ~line.doc.json THEN Return(NilResp, DecodeErr)
    ELSE IF line.doc.error THEN Return(NilResp, APIErr)
    ELSE IF Len(line.doc.items) = 0 THEN Return(NilResp, NoErr)
    ELSE Return(Response(line.doc.items[1]), NoErr)

\* one Recv: a single ReadBytes, whose error is returned as it is
AnthropicRecvOnce(lines, p, limit, rerr) ==
    IF p >= limit
    THEN [ret |-> Return(NilResp, rerr), pos |-> p, end |-> TRUE]
    ELSE [ret |-> AnthropicLine(lines[p + 1]), pos |-> p + 1, end |-> FALSE]

\* ---------------------------------------------------------------------
\* The streaming actions
\* ---------------------------------------------------------------------
InitStream ==
    /\ StreamIdle
    /\ AnthropicIdle
    /\ ConcurrentIdle
    /\ ClientBuilt
    /\ recvPc = "out"
    /\ config = DefaultRetryConfig
    /\ req = NoRequest
    /\ pc = "idle"
    /\ attempt = 0
    /\ lastErr = NoErr
    /\ ctxDone = FALSE
    /\ ctxErr = NoErr
    /\ timerFired = FALSE
    /\ result = NoResult
    /\ calls = <<>>
    /\ waits = 0
    /\ delays = <<>>
    /\ cancelAt = -1
    /\ aborted = FALSE

CompleteStream(p, r, reply) ==
    /\ provider = "none"
    /\ provider' = p
    /\ streamSent' = [of |-> r,
                      body |-> IF p = "openai" THEN OpenAIRequest(r, TRUE)
                               ELSE AnthropicRequest(r, TRUE)]
    /\ exchange' = reply
    /\ LET o == IF p = "openai" THEN OpenAIStreamOutcome(reply)
                ELSE AnthropicStreamOutcome(reply)
       IN /\ streamRet' = [stream |-> o.stream, err |-> o.err]
          /\ closeCalls' = closeCalls + o.closes
    /\ UNCHANGED <<pos, buf, streamCloses, recvLog, completeVars,
                   anthropicVars, concurrentVars, clientVars, loopVars>>

OpenAICompleteStream ==
    /\ provider = "none"
    /\ \E r \in Requests, reply \in StreamReplies :
            CompleteStream("openai", r, reply)

AnthropicCompleteStream ==
    /\ provider = "none"
    /\ \E r \in Requests, reply \in StreamReplies :
            CompleteStream("anthropic", r, reply)

\* the lines ReadBytes can deliver: all of the body while it is open, and
\* what the bufio.Reader holds once the body has been closed. An
\* unterminated last line comes with the error of the end of the body, and
\* both Recv return on the error without looking at the line
Readable ==
    LET whole == Terminated(exchange)
    IN IF closeCalls > 0 /\ buf < whole THEN buf ELSE whole

\* the lines the bufio.Reader can hold when the body is closed: the ones
\* consumed and, once it has read from the body, as many of the following
\* as the transport had ready at its last read
Fetched == IF pos = 0 THEN {0} ELSE pos..Len(exchange.lines)

Recv(r) ==
    /\ recvLog' = Append(recvLog, [resp |-> r.ret.resp, err |-> r.ret.err])
    /\ pos' = r.pos
    /\ buf' = IF closeCalls > 0 THEN buf ELSE r.pos
    /\ UNCHANGED <<provider, exchange, streamRet, closeCalls, streamCloses,
                   streamSent, completeVars, anthropicVars, concurrentVars, clientVars, loopVars>>

OpenAIRecv ==
    /\ provider = "openai"
    /\ streamRet.stream
    /\ Len(recvLog) < MaxRecv
    /\ Recv(OpenAIRecvLoop(exchange.lines, pos, Readable,
                           EndOfBody(exchange.end, closeCalls > 0)))

AnthropicRecv ==
    /\ provider = "anthropic"
    /\ streamRet.stream
    /\ Len(recvLog) < MaxRecv
    /\ Recv(AnthropicRecvOnce(exchange.lines, pos, Readable,
                              EndOfBody(exchange.end, closeCalls > 0)))

\* openAIStream.Close, anthropicStream.Close: s.closer.Close()
Close ==
    /\ streamRet.stream
    /\ closeCalls < MaxCloses
    /\ closeCalls' = closeCalls + 1
    /\ streamCloses' = streamCloses + 1
    /\ buf' \in IF closeCalls = 0 THEN Fetched ELSE {buf}
    /\ UNCHANGED <<provider, exchange, streamRet, pos, recvLog, streamSent,
                   completeVars, anthropicVars, concurrentVars, clientVars, loopVars>>

NextStream ==
    \/ OpenAICompleteStream
    \/ AnthropicCompleteStream
    \/ OpenAIRecv
    \/ AnthropicRecv
    \/ Close

SpecStream == InitStream /\ [][NextStream]_vars

\* the streams of bodies whose last line is unterminated
OpenAICompleteStreamPartial ==
    /\ provider = "none"
    /\ \E r \in Requests, reply \in PartialReplies :
            CompleteStream("openai", r, reply)

AnthropicCompleteStreamPartial ==
    /\ provider = "none"
    /\ \E r \in Requests, reply \in PartialReplies :
            CompleteStream("anthropic", r, reply)

NextPartial ==
    \/ OpenAICompleteStreamPartial
    \/ AnthropicCompleteStreamPartial
    \/ OpenAIRecv
    \/ AnthropicRecv
    \/ Close

SpecPartial == InitStream /\ [][NextPartial]_vars

\* ---------------------------------------------------------------------
\* openAIStream.Recv, one iteration of its loop per step
\* ---------------------------------------------------------------------
ReadBytes_peek(lines, p) == [line |-> lines[p + 1], pos |-> p]

\* s.reader.ReadBytes('\n') when a line can be read: the line, and the
\* reader is past it
ReadBytes(lines, p) == [line |-> lines[p + 1], pos |-> p + 1]

\* a caller enters Recv
RecvCall ==
    /\ provider = "openai"
    /\ streamRet.stream
    /\ recvPc = "out"
    /\ Len(recvLog) < MaxRecv
    /\ recvPc' = "in"
    /\ UNCHANGED <<streamVars, completeVars, anthropicVars, concurrentVars,
                   clientVars>>

\* one iteration of the for loop: ReadBytes, then the error is returned
\* or the line is handled, which returns or continues
RecvIteration ==
    /\ recvPc = "in"
    /\ IF pos >= Readable
       THEN LET o == OpenAIReadError(EndOfBody(exchange.end, closeCalls > 0))
            IN /\ recvLog' = Append(recvLog, [resp |-> o.resp, err |-> o.err])
               /\ recvPc' = "out"
               /\ UNCHANGED <<pos, buf>>
       ELSE LET r == ReadBytes(exchange.lines, pos)
                o == OpenAILine(r.line)
            IN /\ pos' = r.pos
               /\ buf' = IF closeCalls > 0 THEN buf ELSE r.pos
               /\ IF o.continue
                  THEN UNCHANGED <<recvLog, recvPc>>
                  ELSE /\ recvLog' = Append(recvLog,
                                            [resp |-> o.resp, err |-> o.err])
                       /\ recvPc' = "out"
    /\ UNCHANGED <<provider, exchange, streamRet, closeCalls, streamCloses,
                   streamSent, completeVars, anthropicVars, concurrentVars,
                   clientVars>>

NextRecvLoop ==
    \/ OpenAICompleteStream
    \/ RecvCall
    \/ RecvIteration
    \/ Close

\* the goroutine in Recv runs, and ReadBytes on a body that has ended or
\* has been closed returns
SpecRecvLoop ==
    InitStream /\ [][NextRecvLoop]_vars /\ WF_vars(RecvIteration)

\* ---------------------------------------------------------------------
\* Properties of OpenAIClient.Complete (checked under SpecComplete)
\* ---------------------------------------------------------------------
\* an HTTPError whose status code is one of RetryableStatusCodes
RetryableFailure(err) ==
    /\ err.type = "HTTPError"
    /\ err.status \in {config.RetryableStatusCodes[i] :
                        i \in 1..Len(config.RetryableStatusCodes)}

\* C1: for every k in 0..MaxRetries, when the first k attempts fail with a
\* retryable HTTPError the retry budget is not yet spent (Complete has not
\* given up: it can only have been cancelled), and when attempt k+1 then
\* succeeds Complete returns that response with a nil error after exactly
\* k+1 attempts.
C1_SuccessAfterRetries ==
    \A k \in 0..config.MaxRetries :
        /\ ( /\ Len(calls) >= k + 1
             /\ \A i \in 1..k : RetryableFailure(calls[i].err)
             /\ calls[k + 1].err = NoErr )
           => ( /\ pc = "done"
                /\ Len(calls) = k + 1
                /\ result.resp # NilResp
                /\ result = [resp |-> calls[k + 1].resp, err |-> NoErr] )
        /\ ( /\ Len(calls) = k
             /\ \A i \in 1..k : RetryableFailure(calls[i].err)
             /\ pc = "done" )
           => result.err \in CtxErrs

C1_Witness ==
    /\ pc = "done"
    /\ config.MaxRetries = 2
    /\ Len(calls) = 3
    /\ RetryableFailure(calls[1].err)
    /\ RetryableFailure(calls[2].err)
    /\ result = [resp |-> Response("Hello"), err |-> NoErr]

\* C2: when Complete has returned without being cancelled and every attempt
\* it made failed with a retryable HTTPError, it made exactly MaxRetries + 1
\* attempts and returned a nil response with the "max retries exceeded"
\* error wrapping the error of the last attempt.
C2_RetriesExhausted ==
    ( /\ pc = "done"
      /\ ~aborted
      /\ Len(calls) >= 1
      /\ \A i \in 1..Len(calls) : RetryableFailure(calls[i].err) )
    => ( /\ Len(calls) = config.MaxRetries + 1
         /\ result = [resp |-> NilResp,
                      err |-> Exhausted(calls[Len(calls)].err)] )

C2_Witness ==
    /\ pc = "done"
    /\ ~ctxDone
    /\ Len(calls) = 3
    /\ config.MaxRetries = 2
    /\ calls[1].err # calls[3].err
    /\ result.err = Exhausted(calls[3].err)

\* C3: an attempt that fails with an error that is not a retryable
\* HTTPError is the last attempt: Complete returns that error with a nil
\* response at once, and the only backoff waits are the ones that preceded
\* the attempts made (none when it is the first attempt).
C3_NonRetryableReturnsAtOnce ==
    \A i \in 1..Len(calls) :
        (calls[i].err # NoErr /\ ~RetryableFailure(calls[i].err))
        => ( /\ i = Len(calls)
             /\ pc = "done"
             /\ result = [resp |-> NilResp, err |-> calls[i].err]
             /\ waits = i - 1 )

C3_Witness ==
    /\ pc = "done"
    /\ Len(calls) = 1
    /\ calls[1].err.type = "HTTPError"
    /\ ~RetryableFailure(calls[1].err)
    /\ config.MaxRetries = 2
    /\ waits = 0

\* C4: when the context is cancelled while Complete waits in the backoff
\* delay before attempt n, the call of attempt n is never issued.
C4_NoCallAfterCancelInBackoff ==
    \A i \in 1..Len(calls) : calls[i].attempt # cancelAt

\* C5: when a backoff wait is aborted by cancellation Complete returns a nil
\* response and the context's error itself, which is neither the "max
\* retries exceeded" error nor the error of the previous attempt.
C5_CancelReturnsContextError ==
    aborted
    => ( /\ pc = "done"
         /\ result = [resp |-> NilResp, err |-> ctxErr]
         /\ ctxErr \in CtxErrs
         /\ result.err.type # "exhausted"
         /\ result.err # lastErr )

C5_Witness ==
    /\ aborted
    /\ pc = "done"
    /\ lastErr.type = "HTTPError"
    /\ Len(calls) = 2
    /\ timerFired

\* ---------------------------------------------------------------------
\* Properties of the streams (checked under SpecStream)
\* ---------------------------------------------------------------------
IsDataLine(line) == line.kind = "data"

\* a data event that carries a document without an error object and with
\* at least one choice / content block
IsFragmentEvent(line) ==
    /\ line.kind = "data"
    /\ line.form = "doc"
    /\ line.doc.json
    /\ ~line.doc.error
    /\ Len(line.doc.items) >= 1

HasDone(lines) == \E d \in 1..Len(lines) : lines[d] = DoneLine

\* the index of the first [DONE] line
FirstDone(lines) ==
    CHOOSE d \in 1..Len(lines) :
        lines[d] = DoneLine /\ \A j \in 1..(d - 1) : lines[j] # DoneLine

\* the data events before the first [DONE]
EventsBeforeDone(lines) ==
    SelectSeq(SubSeq(lines, 1, FirstDone(lines) - 1), IsDataLine)

\* data events with at least one choice, separated by any blank lines,
\* followed by [DONE]
WellFormedOpenAIStream(lines) ==
    /\ HasDone(lines)
    /\ \A i \in 1..(FirstDone(lines) - 1) :
            lines[i] = BlankLine \/ IsFragmentEvent(lines[i])

\* the first n+1 Recv results are the n events' first texts, then io.EOF
FragmentsThenEOF(log, events) ==
    \A i \in 1..Len(log) :
        /\ i <= Len(events)
           => ( /\ log[i].err = NoErr
                /\ log[i].resp.kind = "resp"
                /\ log[i].resp.content = events[i].doc.items[1] )
        /\ i = Len(events) + 1
           => log[i] = [resp |-> NilResp, err |-> EOFErr]

\* C6: on a stream of data events with at least one choice each, followed
\* by [DONE], the Recv calls of an openAIStream return one fragment per
\* event, in order, with the content of the event's first choice, and then
\* io.EOF.
C6_OneFragmentPerEvent ==
    ( /\ provider = "openai"
      /\ streamRet.stream
      /\ closeCalls = 0
      /\ WellFormedOpenAIStream(exchange.lines) )
    => FragmentsThenEOF(recvLog, EventsBeforeDone(exchange.lines))

C6_Witness ==
    /\ provider = "openai"
    /\ closeCalls = 0
    /\ exchange.lines = <<DataLine([json |-> TRUE, error |-> FALSE,
                                    items |-> <<" World", "Hello">>,
                                    calls |-> << <<>>, <<WireToolCall1>> >>]),
                          DataLine([json |-> TRUE, error |-> FALSE,
                                    items |-> <<"Hello">>,
                                    calls |-> << <<>> >>]),
                          DoneLine>>
    /\ Len(recvLog) = 3
    /\ recvLog[1].resp = Response(" World")
    /\ recvLog[2].resp = Response("Hello")
    /\ recvLog[3].err = EOFErr

\* C7: once a Recv of an openAIStream has returned io.EOF, every later Recv
\* returns io.EOF too and never a fragment.
C7_EndOfStreamAbsorbing ==
    (provider = "openai" /\ closeCalls = 0)
    => \A i, j \in 1..Len(recvLog) :
            (i < j /\ recvLog[i].err = EOFErr)
            => recvLog[j] = [resp |-> NilResp, err |-> EOFErr]

\* the body of the repository's streaming test: every JSON event followed
\* by a blank line, then [DONE] and a blank line
AnthropicTestStream(lines) ==
    /\ Len(lines) >= 2
    /\ Len(lines) % 2 = 0
    /\ lines[Len(lines) - 1] = DoneLine
    /\ \A i \in 1..Len(lines) :
            /\ (i % 2 = 0) => lines[i] = BlankLine
            /\ (i % 2 = 1 /\ i < Len(lines) - 1) => IsFragmentEvent(lines[i])

\* C8: on a 200 response whose body is a sequence of JSON events, each
\* followed by a blank line, ended by [DONE] and a blank line, the Recv
\* calls of an anthropicStream return one fragment per event, in order, and
\* then io.EOF.
C8_AnthropicFragmentsThenEOF ==
    ( /\ provider = "anthropic"
      /\ streamRet.stream
      /\ exchange.status = StatusOK
      /\ closeCalls = 0
      /\ AnthropicTestStream(exchange.lines) )
    => FragmentsThenEOF(recvLog, EventsBeforeDone(exchange.lines))

\* a well-formed data event with zero choices and no error object
IsZeroChoiceEvent(line) ==
    /\ line.kind = "data"
    /\ line.form = "doc"
    /\ line.doc.json
    /\ ~line.doc.error
    /\ Len(line.doc.items) = 0

NotZeroChoiceEvent(line) == ~IsZeroChoiceEvent(line)

RECURSIVE OpenAIRecvSeq(_, _, _, _)
\* what n successive Recv calls return on an open body, from line p
OpenAIRecvSeq(lines, end, p, n) ==
    IF n = 0 THEN <<>>
    ELSE LET r == OpenAIRecvLoop(lines, p, Len(lines), EndOfBody(end, FALSE))
         IN <<[resp |-> r.ret.resp, err |-> r.ret.err]>>
            \o OpenAIRecvSeq(lines, end, r.pos, n - 1)

\* C9: the Recv calls of an openAIStream return, call by call, what they
\* return on the same body with the zero-choice events removed: such an
\* event yields no fragment and no error, and the call that reads it goes
\* on to the next event.
C9_ZeroChoiceEventSwallowed ==
    (provider = "openai" /\ streamRet.stream /\ closeCalls = 0)
    => recvLog = OpenAIRecvSeq(SelectSeq(exchange.lines, NotZeroChoiceEvent),
                               exchange.end, 0, Len(recvLog))

C9_Witness ==
    /\ provider = "openai"
    /\ closeCalls = 0
    /\ Len(exchange.lines) = 3
    /\ IsZeroChoiceEvent(exchange.lines[1])
    /\ IsFragmentEvent(exchange.lines[2])
    /\ IsZeroChoiceEvent(exchange.lines[3])
    /\ exchange.end = "eof"
    /\ recvLog = <<[resp |-> Response("Hello"), err |-> NoErr],
                   [resp |-> NilResp, err |-> EOFErr]>>
    /\ pos = 3

\* C10: when the status of the response is not 200, OpenAIClient's
\* CompleteStream returns no stream and an HTTPError carrying the status,
\* the body has been closed, and no Recv is made.
C10_NonOKStatusClosesBody ==
    ( /\ provider = "openai"
      /\ exchange.kind = "http"
      /\ exchange.status # StatusOK )
    => ( /\ ~streamRet.stream
         /\ streamRet.err.type = "HTTPError"
         /\ streamRet.err.status = exchange.status
         /\ closeCalls = 1
         /\ recvLog = <<>>
         /\ ~ENABLED OpenAIRecv )

C10_Witness ==
    /\ provider = "openai"
    /\ exchange.kind = "http"
    /\ exchange.status = StatusUnauthorized
    /\ ~streamRet.stream
    /\ closeCalls = 1

\* ---------------------------------------------------------------------
\* AnthropicClient.Complete
\* ---------------------------------------------------------------------
\* what the exchange of AnthropicClient.Complete can produce: httpClient.Do
\* fails, or a response with any status and body
AnthropicReplies ==
    {[kind |-> "transport", status |-> 0, doc |-> BadJSON]}
    \cup {[kind |-> "http", status |-> s, doc |-> d] :
            s \in {StatusOK, StatusUnauthorized, StatusTooManyRequests,
                   StatusInternalServerError},
            d \in JSONDocs \cup {BadJSON}}

\* the body is decoded whatever the status is
anthropicComplete(reply) ==
    IF reply.kind = "transport"
    THEN [resp |-> NilResp, err |-> TransportErr]
    ELSE IF ~reply.doc.json
    THEN [resp |-> NilResp, err |-> DecodeErr]
    ELSE IF reply.doc.error
    THEN [resp |-> NilResp, err |-> APIErr]
    ELSE IF Len(reply.doc.items) = 0
    THEN [resp |-> NilResp, err |-> EmptyErr]
    ELSE [resp |-> Response(reply.doc.items[1]), err |-> NoErr]

AnthropicExchanges_retryOn429(reply) ==
    IF reply.kind = "http" /\ reply.status = StatusTooManyRequests
    THEN 2 ELSE 1

\* the requests one Complete sends: c.httpClient.Do stands once in it,
\* in no loop, and every path after it returns
AnthropicExchanges(reply) == 1

\* one call of AnthropicClient.Complete: one request, no loop
AnthropicComplete ==
    /\ aCalls < MaxAnthropicCalls
    /\ \E r \in Requests, reply \in AnthropicReplies :
        /\ aSent' = [of |-> r, body |-> AnthropicRequest(r, FALSE)]
        /\ aReply' = reply
        /\ aResult' = anthropicComplete(reply)
        /\ aRequests' = aRequests + AnthropicExchanges(reply)
    /\ aCalls' = aCalls + 1
    /\ UNCHANGED <<completeVars, streamVars, concurrentVars, clientVars, loopVars>>

NextNonStreaming ==
    \/ CompleteCall
    \/ CtxCancel
    \/ TimerFire
    \/ SelectCtxDone
    \/ SelectTimer
    \/ AttemptAny
    \/ AnthropicComplete

\* the non-streaming calls of both clients
SpecNonStreaming == InitComplete /\ [][NextNonStreaming]_vars

\* ---------------------------------------------------------------------
\* Two goroutines call Complete on the same OpenAIClient, each with a
\* context that is never cancelled. Each call has its own attempt, lastErr
\* and resp (locals of Complete); c.config is the client's and is shared.
\* ---------------------------------------------------------------------
LoopVar_shared(st, c) == st[1].attempt

\* the loop variable `attempt` of call c
LoopVar(st, c) == st[c].attempt

\* call c begins: attempt := 0 and the loop condition is evaluated
ConcurrentCall(c) ==
    /\ callState[c].pc = "idle"
    /\ callState' =
        [callState EXCEPT
            ![c] = [@ EXCEPT
                !.pc = EnterIteration(0),
                !.attempt = 0,
                !.config0 = config,
                !.result = IF EnterIteration(0) = "done"
                           THEN [resp |-> NilResp,
                                 err |-> Exhausted(callState[c].lastErr)]
                           ELSE @]]
    /\ UNCHANGED <<completeVars, streamVars, anthropicVars, clientVars, loopVars>>

\* the select of call c proceeds with the case <-time.After(delay)
ConcurrentWake(c) ==
    /\ callState[c].pc = "wait"
    /\ callState' = [callState EXCEPT ![c].pc = "call"]
    /\ UNCHANGED <<completeVars, streamVars, anthropicVars, clientVars, loopVars>>

\* call c calls c.complete and handles its outcome, up to the next
\* suspension point of its loop
ConcurrentAttempt(c, reply) ==
    /\ callState[c].pc = "call"
    /\ LET st == callState[c]
           a == LoopVar(callState, c)
           r == complete(reply)
           le == AssignLastErr(st.lastErr, r.err)
           got == [st EXCEPT !.replies = Append(@, reply), !.lastErr = le]
       IN callState' =
            [callState EXCEPT
                ![c] =
                    IF le = NoErr
                    THEN [got EXCEPT !.pc = "done",
                                     !.result = [resp |-> r.resp,
                                                 err |-> NoErr]]
                    ELSE IF ~shouldRetry(le)
                    THEN [got EXCEPT !.pc = "done",
                                     !.result = [resp |-> NilResp,
                                                 err |-> le]]
                    ELSE [got EXCEPT
                            !.attempt = a + 1,
                            !.pc = EnterIteration(a + 1),
                            !.delays = IF EnterIteration(a + 1) = "wait"
                                       THEN Append(@, getRetryDelay(a + 1))
                                       ELSE @,
                            !.result = IF EnterIteration(a + 1) = "done"
                                       THEN [resp |-> NilResp,
                                             err |-> Exhausted(le)]
                                       ELSE @]]
    /\ UNCHANGED <<completeVars, streamVars, anthropicVars, clientVars, loopVars>>

ConcurrentCallAny == \E c \in Callers : ConcurrentCall(c)

ConcurrentWakeAny == \E c \in Callers : ConcurrentWake(c)

ConcurrentAttemptAny ==
    \E c \in Callers :
        /\ callState[c].pc = "call"
        /\ \E reply \in Replies : ConcurrentAttempt(c, reply)

NextConcurrent ==
    \/ ConcurrentCallAny
    \/ ConcurrentWakeAny
    \/ ConcurrentAttemptAny

SpecConcurrent == InitComplete /\ [][NextConcurrent]_vars

\* ---------------------------------------------------------------------
\* NewOpenAIClient applied to a configuration
\* ---------------------------------------------------------------------
InitNew ==
    /\ StreamIdle
    /\ AnthropicIdle
    /\ ConcurrentIdle
    /\ newConfig \in OpenAIConfigs
    /\ client = NoClient
    /\ recvPc = "out"
    /\ config = NilRetryConfig
    /\ req = NoRequest
    /\ pc = "idle"
    /\ attempt = 0
    /\ lastErr = NoErr
    /\ ctxDone = FALSE
    /\ ctxErr = NoErr
    /\ timerFired = FALSE
    /\ result = NoResult
    /\ calls = <<>>
    /\ waits = 0
    /\ delays = <<>>
    /\ cancelAt = -1
    /\ aborted = FALSE

\* the caller constructs the client; config is its c.config.RetryConfig
NewClient ==
    /\ client = NoClient
    /\ client' = NewOpenAIClient(newConfig)
    /\ config' = NewOpenAIClient(newConfig).config.RetryConfig
    /\ UNCHANGED <<newConfig, req, pc, attempt, lastErr, ctxDone, ctxErr,
                   timerFired, result, calls, waits, delays, cancelAt,
                   aborted, streamVars, anthropicVars, concurrentVars,
                   loopVars>>

NextNew == NewClient

SpecNew == InitNew /\ [][NextNew]_vars

\* Complete on the client that NewOpenAIClient returned
CompleteOfClient ==
    /\ client # NoClient
    /\ NextComplete

NextClient ==
    \/ NewClient
    \/ CompleteOfClient

SpecClient == InitNew /\ [][NextClient]_vars

\* ---------------------------------------------------------------------
\* The calls that send a request: Complete and CompleteStream of both
\* clients. A run makes either the non-streaming calls or one CompleteStream
\* call.
\* ---------------------------------------------------------------------
RequestsOfComplete ==
    /\ provider = "none"
    /\ NextNonStreaming

RequestsOfCompleteStream ==
    /\ pc = "idle"
    /\ aCalls = 0
    /\ OpenAICompleteStream \/ AnthropicCompleteStream

NextRequests ==
    \/ RequestsOfComplete
    \/ RequestsOfCompleteStream

SpecRequests == InitStream /\ [][NextRequests]_vars

\* C12: when the response has a non-2xx status AnthropicClient.Complete
\* returns a nil response and an error, whatever the body is.
C12_AnthropicNon2xxIsError ==
    ( /\ aCalls >= 1
      /\ aReply.kind = "http"
      /\ ~(aReply.status >= 200 /\ aReply.status < 300) )
    => (aResult.resp = NilResp /\ aResult.err # NoErr)

\* C11: when the status of the response is not 200, AnthropicClient's
\* CompleteStream returns an error and no usable stream, and the body of the
\* response has been closed.
C11_AnthropicNonOKStatusIsError ==
    ( /\ provider = "anthropic"
      /\ exchange.kind = "http"
      /\ exchange.status # StatusOK )
    => ( /\ ~streamRet.stream
         /\ streamRet.err # NoErr
         /\ closeCalls >= 1 )

\* C13: whatever Recv and Close calls are made on a stream, the body's
\* Close is invoked exactly once, by the first Close call of the stream, and
\* not again by the later ones.
C13_CloseIdempotent ==
    streamRet.stream
    => closeCalls = (IF streamCloses = 0 THEN 0 ELSE 1)

\* the delay before attempt n computed over the natural numbers:
\* min(InitialDelay * 2^(n-1), MaxDelay)
ExactDelay(n) ==
    LET exact == {b + (n - 1) : b \in config.InitialDelay}
    IN IF GtNat(exact, config.MaxDelay) THEN config.MaxDelay ELSE exact

\* the smaller of two natural numbers given by their bits
MinNat(a, b) == IF GtNat(a, b) THEN b ELSE a

\* C14: with InitialDelay and MaxDelay not negative, the delay waited before
\* attempt n is min(InitialDelay * 2^(n-1), MaxDelay) computed without
\* overflow; it is not negative and not less than min(InitialDelay,
\* MaxDelay).
C14_DelayIsCappedExponential ==
    (~Negative(config.InitialDelay) /\ ~Negative(config.MaxDelay))
    => \A n \in 1..Len(delays) :
            /\ delays[n] = ExactDelay(n)
            /\ ~Negative(delays[n])
            /\ ~GtNat(MinNat(config.InitialDelay, config.MaxDelay), delays[n])

\* a non-blank line that lacks the prefix "data: "
NotOtherLine(line) == line.kind # "other"

\* C15: on a non-blank line without the prefix "data: " the Recv of an
\* openAIStream returns nothing for the line and goes on to the next one
\* (its results are those on the body without such lines), and the Recv of
\* an anthropicStream that reads such a line returns the error "invalid SSE
\* format".
C15_LineWithoutPrefix ==
    /\ (provider = "openai" /\ streamRet.stream /\ closeCalls = 0)
       => recvLog = OpenAIRecvSeq(SelectSeq(exchange.lines, NotOtherLine),
                                  exchange.end, 0, Len(recvLog))
    /\ (provider = "anthropic" /\ streamRet.stream /\ closeCalls = 0)
       => \A i \in 1..Len(recvLog) :
                (i <= Len(exchange.lines) /\ exchange.lines[i] = OtherLine)
                => recvLog[i] = [resp |-> NilResp, err |-> SSEFormatErr]

C15_Witness ==
    /\ provider = "openai"
    /\ closeCalls = 0
    /\ Len(exchange.lines) = 3
    /\ exchange.lines[1] = OtherLine
    /\ IsFragmentEvent(exchange.lines[2])
    /\ exchange.lines[3] = OtherLine
    /\ exchange.end = "eof"
    /\ recvLog = <<[resp |-> Response("Hello"), err |-> NoErr],
                   [resp |-> NilResp, err |-> EOFErr]>>

NotBlankLine(line) == line # BlankLine

RECURSIVE AnthropicRecvSeq(_, _, _, _)
\* what n successive Recv calls of an anthropicStream return on an open
\* body, from line p
AnthropicRecvSeq(lines, end, p, n) ==
    IF n = 0 THEN <<>>
    ELSE LET r == AnthropicRecvOnce(lines, p, Len(lines),
                                    EndOfBody(end, FALSE))
         IN <<[resp |-> r.ret.resp, err |-> r.ret.err]>>
            \o AnthropicRecvSeq(lines, end, r.pos, n - 1)

\* C16: for both stream adapters the Recv calls return, call by call, what
\* they return on the same body with the blank lines removed: blank lines
\* between the events change neither the fragments nor the terminal result,
\* and cause no error.
C16_BlankLinesTolerated ==
    /\ (provider = "openai" /\ streamRet.stream /\ closeCalls = 0)
       => recvLog = OpenAIRecvSeq(SelectSeq(exchange.lines, NotBlankLine),
                                  exchange.end, 0, Len(recvLog))
    /\ (provider = "anthropic" /\ streamRet.stream /\ closeCalls = 0)
       => recvLog = AnthropicRecvSeq(SelectSeq(exchange.lines, NotBlankLine),
                                     exchange.end, 0, Len(recvLog))

\* C17: the Recv of an anthropicStream that reads a data event with an
\* empty content list and no error object returns a fragment with empty
\* Content and a nil error; Recv number i reads line i, so that every data
\* event read yields one fragment.
C17_EmptyContentIsEmptyFragment ==
    (provider = "anthropic" /\ streamRet.stream /\ closeCalls = 0)
    => \A i \in 1..Len(recvLog) :
            (i <= Len(exchange.lines) /\ IsZeroChoiceEvent(exchange.lines[i]))
            => recvLog[i] = [resp |-> Response(""), err |-> NoErr]

\* a 200 response whose payload decodes
DecodedOK(reply) ==
    reply.kind = "http" /\ reply.status = StatusOK /\ reply.doc.json

\* what Complete must return for a decoded 200 payload that carries an error
\* object or has no choices / content blocks
DecodeFailure(doc) ==
    IF doc.error THEN [resp |-> NilResp, err |-> APIErr]
    ELSE [resp |-> NilResp, err |-> EmptyErr]

\* C18: a 200 response whose payload carries an error object makes Complete
\* return a nil response and the API error, also when choices are present;
\* a 200 payload without error object and with zero choices / content
\* blocks makes it return a nil response and the empty-result error. For
\* OpenAI the exchange is the last one of the call: it is not retried.
C18_PayloadErrorsAreFatal ==
    /\ \A i \in 1..Len(calls) :
            ( /\ DecodedOK(calls[i].reply)
              /\ calls[i].reply.doc.error
                 \/ Len(calls[i].reply.doc.items) = 0 )
            => ( /\ i = Len(calls)
                 /\ pc = "done"
                 /\ result = DecodeFailure(calls[i].reply.doc) )
    /\ ( /\ aCalls > 0
         /\ DecodedOK(aReply)
         /\ aReply.doc.error \/ Len(aReply.doc.items) = 0 )
       => aResult = DecodeFailure(aReply.doc)

C18_Witness ==
    /\ Len(calls) = 2
    /\ RetryableFailure(calls[1].err)
    /\ DecodedOK(calls[2].reply)
    /\ calls[2].reply.doc.error
    /\ Len(calls[2].reply.doc.items) > 0
    /\ pc = "done"
    /\ result = [resp |-> NilResp, err |-> APIErr]
    /\ aCalls = 1
    /\ DecodedOK(aReply)
    /\ Len(aReply.doc.items) = 0
    /\ aResult = [resp |-> NilResp, err |-> EmptyErr]

RECURSIVE Solo(_, _, _, _, _)
\* Complete run alone against the replies, in one piece: the loop from its
\* condition with `attempt` = a and lastErr = last, after k exchanges and
\* the waits ds. It gives the number of exchanges made, the delays waited,
\* whether the call returned and what it returned.
Solo(replies, k, a, last, ds) ==
    IF ~(a <= config.MaxRetries)
    THEN [done |-> TRUE, n |-> k, delays |-> ds,
          result |-> [resp |-> NilResp, err |-> Exhausted(last)]]
    ELSE LET waited == IF a > 0 THEN Append(ds, getRetryDelay(a)) ELSE ds
         IN IF k = Len(replies)
            THEN [done |-> FALSE, n |-> k, delays |-> waited,
                  result |-> NoResult]
            ELSE LET r == complete(replies[k + 1])
                 IN IF r.err = NoErr
                    THEN [done |-> TRUE, n |-> k + 1, delays |-> waited,
                          result |-> [resp |-> r.resp, err |-> NoErr]]
                    ELSE IF ~shouldRetry(r.err)
                    THEN [done |-> TRUE, n |-> k + 1, delays |-> waited,
                          result |-> [resp |-> NilResp, err |-> r.err]]
                    ELSE Solo(replies, k + 1, a + 1, r.err, waited)

\* C20: when two Complete calls run concurrently on one client, the
\* configuration is the one each call began with, and each call made the
\* exchanges, waited the delays and returned the result that Complete run
\* alone makes, waits and returns against the replies the call got.
C20_ConcurrentCallsIndependent ==
    \A c \in Callers :
        callState[c].pc # "idle"
        => LET st == callState[c]
               solo == Solo(st.replies, 0, 0, NoErr, <<>>)
           IN /\ config = st.config0
              /\ solo.n = Len(st.replies)
              /\ solo.done = (st.pc = "done")
              /\ solo.delays = st.delays
              /\ solo.result = st.result

C20_Witness ==
    /\ callState[1].pc = "wait"
    /\ Len(callState[1].replies) = 1
    /\ callState[2].pc = "done"
    /\ Len(callState[2].replies) = 3
    /\ Len(callState[2].delays) = 2
    /\ callState[2].result.err = NoErr

\* a tool call as the server sent it: its id, its function name and the
\* string its arguments literal denotes
AsSent(tc) ==
    [id |-> tc.id, name |-> tc.name, arguments |-> JSONUnquote(tc.arguments)]

AllAsSent(tcs) == [i \in 1..Len(tcs) |-> AsSent(tcs[i])]

\* a Recv result that is a fragment
IsFragment(entry) == entry.resp.kind = "resp"

\* C21: the fragments returned by the Recv calls of an openAIStream are, in
\* order, those of the body's fragment events, and the ToolCalls of each are
\* exactly the tool_calls of the delta of that event's first choice,
\* whatever the earlier events carried.
C21_ToolCallsEmittedAsIs ==
    (provider = "openai" /\ streamRet.stream /\ closeCalls = 0)
    => LET frags == SelectSeq(recvLog, IsFragment)
           evs == SelectSeq(exchange.lines, IsFragmentEvent)
       IN /\ Len(frags) <= Len(evs)
          /\ \A j \in 1..Len(frags) :
                frags[j].resp.toolCalls = AllAsSent(evs[j].doc.calls[1])

C21_Witness ==
    /\ provider = "openai"
    /\ closeCalls = 0
    /\ Len(exchange.lines) = 3
    /\ \A i \in 1..3 : IsFragmentEvent(exchange.lines[i])
    /\ exchange.lines[1].doc.calls[1] = <<WireToolCall2, WireToolCall1>>
    /\ exchange.lines[2].doc.calls[1] = <<>>
    /\ exchange.lines[3].doc.calls[1] = <<WireToolCall2, WireToolCall1>>
    /\ Len(recvLog) = 3
    /\ Len(recvLog[1].resp.toolCalls) = 2
    /\ recvLog[1].resp.toolCalls[1].name = "get_time"
    /\ recvLog[2].resp.toolCalls = <<>>
    /\ recvLog[3].resp.toolCalls = recvLog[1].resp.toolCalls

\* a 200 response whose payload decodes, has no error object and has a
\* first choice with tool calls
CarriesToolCalls(reply) ==
    /\ DecodedOK(reply)
    /\ ~reply.doc.error
    /\ Len(reply.doc.items) > 0
    /\ Len(reply.doc.calls[1]) > 0

\* C22: when Complete was called with a request carrying one tool and the
\* response has tool calls in choices[0].message.tool_calls, the request
\* sent carried the tool, and the response returned by Complete has those
\* tool calls, each with its id, its function name and its argument string
\* as sent, character by character.
C22_ToolCallRoundTrip ==
    \A i \in 1..Len(calls) :
        (Len(req.tools) = 1 /\ CarriesToolCalls(calls[i].reply))
        => ( /\ calls[i].request.tools = req.tools
             /\ i = Len(calls)
             /\ pc = "done"
             /\ result.err = NoErr
             /\ result.resp.toolCalls = AllAsSent(calls[i].reply.doc.calls[1]) )

C22_Witness ==
    /\ pc = "done"
    /\ req.tools = <<WeatherTool>>
    /\ Len(calls) = 2
    /\ calls[2].reply.doc.calls = << <<WireToolCall2, WireToolCall1>> >>
    /\ Len(result.resp.toolCalls) = 2
    /\ result.resp.toolCalls[1].name = "get_time"
    /\ result.resp.toolCalls[1].arguments =
            <<"{", " ", "\"", "u", "\"", " ", ":", "\n", "2", "}">>

\* the messages a request body must carry for the request r
OneUserMessage(r) == <<[role |-> "user", content |-> r.prompt]>>

\* C23: every request body given to httpClient.Do, by each attempt of
\* OpenAIClient.Complete, by AnthropicClient.Complete and by CompleteStream
\* of either client, carries exactly one message, with role "user" and the
\* prompt of the request the method was called with as its content.
C23_OneUserMessage ==
    /\ \A i \in 1..Len(calls) :
            calls[i].request.messages = OneUserMessage(req)
    /\ aCalls > 0 => aSent.body.messages = OneUserMessage(aSent.of)
    /\ provider # "none"
       => streamSent.body.messages = OneUserMessage(streamSent.of)

C23_Witness ==
    /\ Len(calls) = 3
    /\ req.prompt = "Weather in Paris?"
    /\ \A i \in 1..3 : calls[i].request.messages[1].content = req.prompt
    /\ aCalls = 1
    /\ aSent.of.prompt = "Hi"
    /\ aSent.body.messages = <<[role |-> "user", content |-> "Hi"]>>

\* the tool-choice, tools and stream fields a request body must have for
\* the request r
EncodesToolsAndStream(body, r, streaming) ==
    /\ (body.toolChoice = "auto") = (Len(r.tools) > 0)
    /\ body.toolChoice \in {"auto", ""}
    /\ Len(r.tools) > 0 => body.tools = r.tools
    /\ body.stream = streaming

\* C24: for each client, the request body has the tool-choice field set to
\* "auto" exactly when the request has at least one tool, and then carries
\* the tools; it has the stream flag set exactly when CompleteStream built
\* it.
C24_ToolChoiceAndStreamFlag ==
    /\ \A i \in 1..Len(calls) :
            EncodesToolsAndStream(calls[i].request, req, FALSE)
    /\ aCalls > 0 => EncodesToolsAndStream(aSent.body, aSent.of, FALSE)
    /\ provider # "none"
       => EncodesToolsAndStream(streamSent.body, streamSent.of, TRUE)

\* the same for the OpenAI client alone
OpenAIToolChoiceAndStreamFlag ==
    /\ \A i \in 1..Len(calls) :
            EncodesToolsAndStream(calls[i].request, req, FALSE)
    /\ provider = "openai"
       => EncodesToolsAndStream(streamSent.body, streamSent.of, TRUE)

\* a line on which the loop of openAIStream.Recv returns
ReturnsFromRecv(line) == ~OpenAILine(line).continue

\* C25: each Recv of an openAIStream returns at the latest on the next line
\* that ends its loop, so the Recv calls beyond the number of such lines
\* have read to the end of the body. When the body ended cleanly they return
\* io.EOF, with or without a [DONE] before; when its Read failed they return
\* a "failed to read stream" error that wraps the Read's error and is not
\* io.EOF.
C25_EndOfInputClassified ==
    (provider = "openai" /\ streamRet.stream /\ closeCalls = 0)
    => \A i \in 1..Len(recvLog) :
            i > Len(SelectSeq(exchange.lines, ReturnsFromRecv))
            => /\ exchange.end = "eof"
                  => recvLog[i] = [resp |-> NilResp, err |-> EOFErr]
               /\ exchange.end = "err"
                  => ( /\ recvLog[i].resp = NilResp
                       /\ recvLog[i].err.type = "failed to read stream"
                       /\ recvLog[i].err.wraps = BodyReadErr
                       /\ recvLog[i].err # EOFErr )

C25_Witness ==
    /\ provider = "openai"
    /\ closeCalls = 0
    /\ exchange.end = "err"
    /\ Len(exchange.lines) = 2
    /\ IsFragmentEvent(exchange.lines[1])
    /\ exchange.lines[2] = BlankLine
    /\ Len(recvLog) = 2
    /\ IsFragment(recvLog[1])
    /\ recvLog[2].err = ReadFailed(BodyReadErr)

\* C26: the client NewOpenAIClient returns has, for a configuration without
\* RetryConfig, the policy MaxRetries 3, InitialDelay 1s, MaxDelay 5s and
\* the retryable codes 429, 500, 502 and 503; for an empty BaseURL the
\* default endpoint and for a zero Timeout 30s; and every field the caller
\* set as the caller set it.
C26_NewOpenAIClientDefaults ==
    client # NoClient
    => LET c == client.config
           r == c.RetryConfig
       IN /\ c.APIKey = newConfig.APIKey
          /\ IF newConfig.RetryConfig = NilRetryConfig
             THEN /\ r.MaxRetries = 3
                  /\ r.InitialDelay = Bits(1000000000)
                  /\ r.MaxDelay = Mul64(Bits(5), Bits(1000000000))
                  /\ Len(r.RetryableStatusCodes) = 4
                  /\ {r.RetryableStatusCodes[i] : i \in 1..4}
                        = {429, 500, 502, 503}
             ELSE r = newConfig.RetryConfig
          /\ IF newConfig.BaseURL = ""
             THEN c.BaseURL = "https://api.openai.com/v1"
             ELSE c.BaseURL = newConfig.BaseURL
          /\ IF newConfig.Timeout = {}
             THEN c.Timeout = Mul64(Bits(30), Bits(1000000000))
             ELSE c.Timeout = newConfig.Timeout
          /\ newConfig.HTTPClient # NilHTTPClient
             => ( /\ c.HTTPClient = newConfig.HTTPClient
                  /\ client.httpClient = newConfig.HTTPClient )
          /\ config = r

C26_Witness ==
    /\ client # NoClient
    /\ newConfig.RetryConfig = NilRetryConfig
    /\ newConfig.BaseURL = ""
    /\ newConfig.Timeout = Times(10, Second)
    /\ client.config.RetryConfig.MaxRetries = 3
    /\ client.config.BaseURL = DefaultBaseURL
    /\ client.config.Timeout = Times(10, Second)

\* C27: when the server answers a streaming request of the OpenAI client
\* with a status other than 200, CompleteStream reads the body to its end
\* before closing it: the error it returns is the HTTPError with the status
\* and, as Message, the text the server sent, as Complete returns it.
C27_StreamErrorCarriesBody ==
    (provider = "openai" /\ exchange.kind = "http"
        /\ exchange.status # StatusOK)
    => /\ ~streamRet.stream
       /\ streamRet.err = HTTPError(exchange.status, exchange.text)

\* what a Recv on a line records
OpenAIOn(line) ==
    [resp |-> OpenAILine(line).resp, err |-> OpenAILine(line).err]
AnthropicOn(line) ==
    [resp |-> AnthropicLine(line).resp, err |-> AnthropicLine(line).err]

\* C28: when the body ends cleanly after a last line without a newline, the
\* Recv calls process that line like every other: the i-th Recv of an
\* openAIStream returns what the i-th line that ends its loop gives, the
\* last line of the body included, and the i-th Recv of an anthropicStream
\* what the i-th line gives; end-of-stream is reported only after them.
C28_NoPartialLineLost ==
    (streamRet.stream /\ closeCalls = 0 /\ exchange.end = "partial")
    => /\ provider = "openai"
          => LET events == SelectSeq(exchange.lines, ReturnsFromRecv)
             IN \A i \in 1..Len(recvLog) :
                    i <= Len(events) => recvLog[i] = OpenAIOn(events[i])
       /\ provider = "anthropic"
          => \A i \in 1..Len(recvLog) :
                    i <= Len(exchange.lines)
                    => recvLog[i] = AnthropicOn(exchange.lines[i])

\* the attempts of the run that failed retryably
FailedRetryably(c) == c.err # NoErr /\ shouldRetry(c.err)

RecvEnding(entry) ==
    \/ entry.err = NoErr /\ entry.resp.kind = "resp"
    \/ entry.resp = NilResp /\ entry.err \in {DecodeErr, APIErr, EOFErr}
    \/ entry.resp = NilResp /\ entry.err.type = "failed to read stream"

\* C30: on a body that has ended, every Recv of an openAIStream that was
\* entered returns; each iteration of its loop that goes on to the next has
\* consumed one line, and the iteration that returns has consumed one line
\* or found the end of the body; a Recv ends with a fragment, a decode or
\* API error, end-of-stream or a read error.
C30_RecvTerminates ==
    /\ (recvPc = "in") ~> (recvPc = "out")
    /\ [][(recvPc = "in" /\ closeCalls' = closeCalls)
            => /\ recvPc' = "in" => (pos' = pos + 1 /\ recvLog' = recvLog)
               /\ recvPc' = "out"
                  => ( /\ pos' = pos + 1 \/ (pos' = pos /\ pos >= Readable)
                       /\ Len(recvLog') = Len(recvLog) + 1
                       /\ SubSeq(recvLog', 1, Len(recvLog)) = recvLog
                       /\ RecvEnding(recvLog'[Len(recvLog')]) )]_vars

C30_Witness ==
    /\ recvPc = "out"
    /\ provider = "openai"
    /\ closeCalls = 0
    /\ Len(exchange.lines) = 3
    /\ exchange.lines[1] = OtherLine
    /\ exchange.lines[2] = EmptyDataLine
    /\ IsFragmentEvent(exchange.lines[3])
    /\ Len(recvLog) = 2
    /\ IsFragment(recvLog[1])
    /\ recvLog[2].err = EOFErr
    /\ pos = 3

\* what a returned error stands for: the error itself, or the one that
\* "max retries exceeded" wraps
Underlying(err) == IF err.type = "exhausted" THEN err.wraps ELSE err

\* a finished run made an attempt, and its error is a failure of its last
\* attempt or the context's error
AttemptedAndGrounded ==
    /\ Len(calls) >= 1
    /\ result.err # NoErr
       => ( /\ result.resp = NilResp
            /\ Underlying(result.err) # NoErr
            /\ \/ Underlying(result.err) = calls[Len(calls)].err
               \/ aborted /\ result.err = ctxErr /\ ctxErr \in CtxErrs )

\* C31: for every RetryConfig, MaxRetries 0 and negative included, a run of
\* Complete that has returned made at least one attempt, and an error it
\* returned is, or wraps, a non-nil failure of an attempt or of the context.
C31_AtLeastOneAttempt ==
    pc = "done" => AttemptedAndGrounded

\* the same for the policies with MaxRetries >= 0
NonNegativeRetriesAttempt ==
    (pc = "done" /\ config.MaxRetries >= 0) => AttemptedAndGrounded

\* C32: once Close has been called on an openAIStream, a Recv on it
\* returns no fragment, whatever the stream's reader had buffered before:
\* it returns an error or end-of-stream.
C32_NoFragmentAfterClose ==
    [][(provider = "openai" /\ closeCalls > 0
            /\ Len(recvLog') = Len(recvLog) + 1)
        => ~IsFragment(recvLog'[Len(recvLog')])]_vars

\* the status codes of a list
CodesOf(codes) == {codes[i] : i \in 1..Len(codes)}

\* attempt i of the run was taken as a retryable failure: it was not the
\* attempt whose error Complete returned
TakenAsRetryable(i) ==
    ~(i = Len(calls) /\ pc = "done" /\ result.err = calls[i].err)

====
